---------------------------- MODULE Spec2Model ----------------------------
(***************************************************************************)
(* A model of libnagios: the Plugin template (src/libnagios/plugin.py),    *)
(* its driver main() and formatter finish(), and the range-specification   *)
(* type used by the probes' threshold options, and the probes of          *)
(* src/libnagios/checks (process count, disk, load average, CPU).          *)
(*                                                                         *)
(* Text is modelled as a sequence of one-character strings, so that        *)
(* stripping, joining, formatting and truncation are computed character by  *)
(* character as the code computes them.                                    *)
(***************************************************************************)
EXTENDS Integers, Sequences, FiniteSets, TLC

VARIABLES
    pc,         \* where the run is: constructed, executing, executed, epoch,
                \* runtime, state, exited, aborted
    viaMain,    \* whether main() drives the object
    message,    \* Plugin._message: NoneV or StrV(text)
    status,     \* Plugin._status
    perfdata,   \* Plugin._perfdata: a dict, as the sequence of its items
    as_json,    \* opts.as_json (main) or the as_json argument (direct call)
    limit,      \* the limit finish() ran with
    start,      \* main(): start = time.time(), in hundredths of a second
    stop,       \* main(): the time.time() read after execute()
    blob,       \* finish(): the content of the StringIO buffer
    stdout,     \* what has been written to sys.stdout
    writes,     \* number of sys.stdout.write calls
    exitCode,   \* argument of sys.exit, NoExit before
    call,       \* the last call made on the Plugin object and how it ended
    order,      \* history: perfdata keys in order of their first insertion
    latest,     \* history: the value last added under each key
    driverWrites, \* history: add_perf calls main() made per reserved key
    execStatus, \* history: the status when execute() returned
    entryStatus, \* history: the status finish() was entered with
    given,      \* history: the form and numbers the range string was built from
    rspec,      \* the string handed to Range(...)
    range,      \* the Range object: ok (constructed), low, high, inverse
    probe,      \* the value last tested with `value in range`
    inRange,    \* the answer to that test
    opts,       \* a probe's self.opts, as left by _parse_args()
    sample,     \* what the sampling layer handed to a probe's execute()
    db,         \* the CPU probe's state store: the timestamps it holds
    inv         \* the invocations of the CPU probe: position and locals of each

(***************************************************************************)
(* Bounds of the model.                                                    *)
(***************************************************************************)
\* longest text assigned to Plugin.message in a whole run
MaxLen == 2
\* longest text assigned to Plugin.message when the setter is exercised alone
MaxText == 3
\* largest clock reading, in hundredths of a second
MaxTime == 1
\* largest limit passed to a direct call of finish()
MaxLimit == 4
\* largest magnitude of a number written in a range-specification
MaxNum == 12

(***************************************************************************)
(* Text helpers.                                                           *)
(***************************************************************************)
Elems(s) == {s[i] : i \in DOMAIN s}

Take(s, n) == SubSeq(s, 1, IF n < Len(s) THEN n ELSE Len(s))

IsPrefix(p, s) == Len(p) <= Len(s) /\ SubSeq(s, 1, Len(p)) = p

Min(a, b) == IF a < b THEN a ELSE b

\* whether needle occurs in hay as a contiguous run of characters
Contains(hay, needle) ==
    \E i \in 0..(Len(hay) - Len(needle)) : SubSeq(hay, i + 1, i + Len(needle)) = needle

\* positions of the character c in s
Positions(s, c) == {i \in DOMAIN s : s[i] = c}

RECURSIVE Split(_, _)
\* s.split(c)
Split(s, c) ==
    IF Positions(s, c) = {} THEN <<s>>
    ELSE LET i == CHOOSE j \in Positions(s, c) : \A k \in Positions(s, c) : j <= k
         IN  <<SubSeq(s, 1, i - 1)>> \o Split(SubSeq(s, i + 1, Len(s)), c)

\* the characters str.strip() removes
Whitespace == {" ", "\n"}

RECURSIVE LStrip(_)
LStrip(s) == IF s # <<>> /\ Head(s) \in Whitespace THEN LStrip(Tail(s)) ELSE s

RECURSIVE RStrip(_)
RStrip(s) ==
    IF s # <<>> /\ s[Len(s)] \in Whitespace
    THEN RStrip(SubSeq(s, 1, Len(s) - 1))
    ELSE s

\* str.strip()
Strip(s) == RStrip(LStrip(s))

Digit(d) == <<"0", "1", "2", "3", "4", "5", "6", "7", "8", "9">>[d + 1]

RECURSIVE NatStr(_)
NatStr(n) == IF n < 10 THEN <<Digit(n)>> ELSE NatStr(n \div 10) \o <<Digit(n % 10)>>

\* str(int)
IntStr(n) == IF n < 0 THEN <<"-">> \o NatStr(-n) ELSE NatStr(n)

\* A float is carried as its count of hundredths (h stands for h/100, h >= 0).
\* str(float) / repr(float): shortest form, at least one fractional digit
FloatStr(h) ==
    NatStr(h \div 100) \o <<".">> \o
    (IF h % 10 = 0 THEN <<Digit((h % 100) \div 10)>>
     ELSE <<Digit((h % 100) \div 10), Digit(h % 10)>>)

\* f"{x:.2f}"
Fmt2(h) == NatStr(h \div 100) \o <<".", Digit((h % 100) \div 10), Digit(h % 10)>>

RECURSIVE Join(_, _)
\* sep.join(parts)
Join(sep, parts) ==
    IF parts = <<>> THEN <<>>
    ELSE IF Len(parts) = 1 THEN parts[1]
    ELSE parts[1] \o sep \o Join(sep, Tail(parts))

(***************************************************************************)
(* Status (plugin.py, class Status).                                       *)
(***************************************************************************)
Statuses == {"OK", "WARN", "CRITICAL", "UNKNOWN"}

StatusValueShifted(s) ==
    CASE s = "OK" -> 1 [] s = "WARN" -> 2 [] s = "CRITICAL" -> 3 [] s = "UNKNOWN" -> 4

\* Status.<name>.value
StatusValue(s) ==
    CASE s = "OK" -> 0 [] s = "WARN" -> 1 [] s = "CRITICAL" -> 2 [] s = "UNKNOWN" -> 3

\* Status.<name>.name, as text
StatusName(s) ==
    CASE s = "OK" -> <<"O", "K">>
      [] s = "WARN" -> <<"W", "A", "R", "N">>
      [] s = "CRITICAL" -> <<"C", "R", "I", "T", "I", "C", "A", "L">>
      [] s = "UNKNOWN" -> <<"U", "N", "K", "N", "O", "W", "N">>

(***************************************************************************)
(* Python values handed to the setters: a pair <<type, payload>>.          *)
(*   <<"str", text>>   <<"int", n>>   <<"float", hundredths>>              *)
(*   <<"list", n>> (the list [n])     <<"none", 0>> (None)                 *)
(***************************************************************************)
StrV(t) == <<"str", t>>
IntV(n) == <<"int", n>>
FloatV(h) == <<"float", h>>
ListV(n) == <<"list", n>>
NoneV == <<"none", 0>>

TypeOf(v) == v[1]
Payload(v) == v[2]

\* str(value)
PyStr(v) ==
    CASE TypeOf(v) = "str" -> Payload(v)
      [] TypeOf(v) = "int" -> IntStr(Payload(v))
      [] TypeOf(v) = "float" -> FloatStr(Payload(v))
      [] TypeOf(v) = "list" -> <<"[">> \o IntStr(Payload(v)) \o <<"]">>
      [] TypeOf(v) = "none" -> <<"N", "o", "n", "e">>

\* json.dumps(value)
JsonVal(v) ==
    CASE TypeOf(v) = "str" -> <<"\"">> \o Payload(v) \o <<"\"">>
      [] TypeOf(v) = "int" -> IntStr(Payload(v))
      [] TypeOf(v) = "float" -> FloatStr(Payload(v))
      [] TypeOf(v) = "list" -> <<"[">> \o IntStr(Payload(v)) \o <<"]">>
      [] TypeOf(v) = "none" -> <<"n", "u", "l", "l">>

(***************************************************************************)
(* Inputs of the model.                                                    *)
(***************************************************************************)
Chars == {"a", " ", "|"}

TextsUpTo(n) == UNION {[1..k -> Chars] : k \in 0..n}

\* values a caller may assign to Plugin.message: texts and one non-str value
MessageInputsUpTo(n) == {StrV(t) : t \in TextsUpTo(n)} \cup {IntV(7)}

MessageInputs == MessageInputsUpTo(MaxLen)

\* values a caller may assign to Plugin.status: the members and one non-member
StatusInputs == {<<"Status", s>> : s \in Statuses} \cup {IntV(1)}

KeyEpoch == StrV(<<"e", "p", "o", "c", "h">>)
KeyRuntime == StrV(<<"r", "u", "n", "t", "i", "m", "e">>)
KeyState == StrV(<<"s", "t", "a", "t", "e">>)
ReservedKeys == {KeyEpoch, KeyRuntime, KeyState}

KeyK == StrV(<<"k">>)

\* keys the probe logic adds; a probe may use a reserved key as well
ProbeKeys == {KeyK, KeyState}

\* keys handed to add_perf: the probe's keys and one key that is no str
KeyInputs == ProbeKeys \cup {IntV(5)}

ScalarTypes == {"str", "float", "int"}

\* values handed to add_perf by the probe logic: a scalar, a list and None
ValueInputs == {IntV(7), ListV(1), NoneV}

Limits == 0..MaxLimit

Clock == 0..MaxTime

NoExit == -1
Absent == <<"absent", 0>>
AllKeys == ProbeKeys \cup ReservedKeys

\* finish(): the default of the limit parameter
DefaultLimit == 4096

(***************************************************************************)
(* Plugin: setters.                                                        *)
(***************************************************************************)
\* message.setter: the two checks that raise ValueError
MessageRejects(value) ==
    \/ TypeOf(value) # "str"
    \/ "|" \in Elems(Payload(value))

MessageStoredUnstripped(value) == StrV(Payload(value))

\* message.setter: what is stored for an accepted value
MessageStored(value) == StrV(Strip(Payload(value)))

\* status.setter: the check that raises ValueError
StatusRejects(value) == TypeOf(value) # "Status"

\* add_perf: the two checks that raise ValueError; the second one tests the
\* key again where the message it raises speaks of the value
PerfRejects(key, value) ==
    \/ TypeOf(key) # "str"
    \/ TypeOf(key) \notin ScalarTypes

HasKey(d, key) == \E i \in DOMAIN d : d[i][1] = key

DictSetDefault(d, key, value) ==
    IF HasKey(d, key) THEN d ELSE Append(d, <<key, value>>)

DictSetMoveToEnd(d, key, value) ==
    Append(SelectSeq(d, LAMBDA item : item[1] # key), <<key, value>>)

\* self._perfdata[key] = value
DictSet(d, key, value) ==
    IF HasKey(d, key)
    THEN [i \in DOMAIN d |-> IF d[i][1] = key THEN <<key, value>> ELSE d[i]]
    ELSE Append(d, <<key, value>>)

(***************************************************************************)
(* Plugin.finish: the serialization.                                       *)
(***************************************************************************)
\* f"CRITICAL {__name__}.Plugin.message udefined...."
Placeholder ==
    <<"C", "R", "I", "T", "I", "C", "A", "L", " ",
      "l", "i", "b", "n", "a", "g", "i", "o", "s", ".",
      "p", "l", "u", "g", "i", "n", ".",
      "P", "l", "u", "g", "i", "n", ".",
      "m", "e", "s", "s", "a", "g", "e", " ",
      "u", "d", "e", "f", "i", "n", "e", "d", ".", ".", ".", ".">>

\* `if self._message:` : neither None nor the empty text
Truthy(m) == TypeOf(m) = "str" /\ Payload(m) # <<>>

\* the text finish() writes first
MessageText(m) == IF Truthy(m) THEN Payload(m) ELSE Placeholder

FinalStatusKept(m, s) == s

\* the status finish() exits with
FinalStatus(m, s) == IF Truthy(m) THEN s ELSE "CRITICAL"

\* the non-JSON rendering: one key=value per line
PerfLines(d) ==
    Join(<<"\n">>, [i \in DOMAIN d |-> PyStr(d[i][1]) \o <<"=">> \o PyStr(d[i][2])])

\* json.dumps(self._perfdata)
PerfJson(d) ==
    <<"{">> \o
    Join(<<",", " ">>,
         [i \in DOMAIN d |->
            <<"\"">> \o PyStr(d[i][1]) \o <<"\"", ":", " ">> \o JsonVal(d[i][2])]) \o
    <<"}">>

PerfText(d, json) == IF json THEN PerfJson(d) ELSE PerfLines(d)

\* the content of the buffer before it is read back
Serialize(m, d, json) ==
    MessageText(m) \o (IF d # <<>> THEN <<"|">> \o PerfText(d, json) ELSE <<>>)

ReadAll(buffer, n) == buffer

\* output.seek(0); output.read(limit), for limit >= 0
Read(buffer, n) == Take(buffer, n)

(***************************************************************************)
(* The state machine of one Plugin object.                                 *)
(***************************************************************************)
rangeVars == <<given, rspec, range, probe, inRange>>

checkVars == <<opts, sample, db, inv>>

vars ==
    <<pc, viaMain, message, status, perfdata, as_json, limit, start, stop, blob, stdout,
      writes, exitCode, call, order, latest, driverWrites, execStatus, entryStatus,
      rangeVars, checkVars>>

pluginVars ==
    <<pc, viaMain, message, status, perfdata, as_json, limit, start, stop, blob, stdout,
      writes, exitCode, call, order, latest, driverWrites, execStatus, entryStatus>>

NoRange == [ok |-> FALSE, low |-> <<0, 0>>, high |-> <<0, 0>>, inverse |-> FALSE]
NoGiven == [form |-> "none", a |-> 0, b |-> 0]
\* no value tested yet
NoProbe == <<0, -1>>

NoCall == [op |-> "none", arg |-> Absent, raised |-> FALSE]

\* before _parse_args() and before any sampling
NoOpts == [probe |-> "none"]
NoSample == [probe |-> "none"]

\* the processes that run the CPU probe
Invocations == {1, 2}

\* closest = None
NoClosest == -1

\* an invocation that has not started
Idle ==
    [pc |-> "idle", span |-> 0, warn |-> 0, now |-> 0, keys |-> {},
     closest |-> NoClosest, status |-> "OK", message |-> NoneV, perf |-> <<>>,
     exit |-> NoExit]

\* Plugin.__init__
Init ==
    /\ pc = "constructed"
    /\ viaMain = FALSE
    /\ message = NoneV
    /\ status = "OK"
    /\ perfdata = <<>>
    /\ as_json = FALSE
    /\ limit = 0
    /\ start = 0
    /\ stop = 0
    /\ blob = <<>>
    /\ stdout = <<>>
    /\ writes = 0
    /\ exitCode = NoExit
    /\ call = NoCall
    /\ order = <<>>
    /\ latest = [k \in AllKeys |-> Absent]
    /\ driverWrites = [k \in ReservedKeys |-> 0]
    /\ execStatus = "OK"
    /\ entryStatus = "OK"
    /\ given = NoGiven
    /\ rspec = <<>>
    /\ range = NoRange
    /\ probe = NoProbe
    /\ inRange = FALSE
    /\ opts = NoOpts
    /\ sample = NoSample
    /\ db = {}
    /\ inv = [i \in Invocations |-> Idle]

\* the object is open to calls: used directly, or by execute() under main()
CanMutate == pc \in {"constructed", "executing"}

\* A call that raises ValueError leaves the object as it was; whether the probe
\* handles the error or lets it leave execute() is the caller's step (ExecuteRaises).

\* history of the perfdata contents, kept apart from the dict itself
Note(hist, key, value) ==
    [order |-> IF key \in Elems(hist.order) THEN hist.order ELSE Append(hist.order, key),
     latest |-> [hist.latest EXCEPT ![key] = value]]

\* Plugin.add_perf on the dict d: the dict afterwards and whether it raised
PerfStep(d, key, value) ==
    IF PerfRejects(key, value)
    THEN [d |-> d, raised |-> TRUE]
    ELSE [d |-> DictSet(d, key, value), raised |-> FALSE]

\* Plugin.message = value
SetMessage(value) ==
    /\ CanMutate
    /\ IF MessageRejects(value)
       THEN /\ message' = message
            /\ call' = [op |-> "message", arg |-> value, raised |-> TRUE]
       ELSE /\ message' = MessageStored(value)
            /\ call' = [op |-> "message", arg |-> value, raised |-> FALSE]
    /\ UNCHANGED <<rangeVars, checkVars, pc, viaMain, status, perfdata, as_json, limit, start, stop, blob, stdout, writes,
                   exitCode, order, latest, driverWrites, execStatus,
                   entryStatus>>

\* Plugin.status = value
SetStatus(value) ==
    /\ CanMutate
    /\ IF StatusRejects(value)
       THEN status' = status
       ELSE status' = Payload(value)
    /\ call' = [op |-> "status", arg |-> Absent,
                raised |-> StatusRejects(value)]
    /\ UNCHANGED <<rangeVars, checkVars, pc, viaMain, message, perfdata, as_json, limit, start, stop, blob, stdout, writes,
                   exitCode, order, latest, driverWrites, execStatus,
                   entryStatus>>

\* Plugin.add_perf(key, value), called by the probe logic
AddPerf(key, value) ==
    /\ CanMutate
    /\ LET r == PerfStep(perfdata, key, value)
           h == IF r.raised
                THEN [order |-> order, latest |-> latest]
                ELSE Note([order |-> order, latest |-> latest],
                          key, value)
       IN  /\ perfdata' = r.d
           /\ order' = h.order
           /\ latest' = h.latest
           /\ call' = [op |-> "add_perf", arg |-> value, raised |-> r.raised]
           /\ UNCHANGED <<rangeVars, checkVars, pc, viaMain, message, status, as_json, limit, start, stop, blob, stdout, writes,
                   exitCode, driverWrites, execStatus, entryStatus>>

\* values handed to add_perf_multi: dicts, as the sequence of their items, and
\* one value that is no dict
MultiInputs ==
    {IntV(3),
     <<"dict", <<>>>>,
     <<"dict", <<<<KeyK, IntV(7)>>>>>>,
     <<"dict", <<<<KeyK, ListV(1)>>>>>>,
     <<"dict", <<<<KeyState, IntV(7)>>, <<KeyK, ListV(1)>>>>>>,
     <<"dict", <<<<IntV(5), IntV(7)>>>>>>,
     <<"dict", <<<<KeyK, IntV(7)>>, <<IntV(5), IntV(7)>>>>>>}

RECURSIVE AddAll(_, _, _)
\* add_perf_multi: `for key, value in data.items(): self.add_perf(key, value)`,
\* which stops at the first add_perf that raises
AddAll(d, hist, items) ==
    IF items = <<>> THEN [d |-> d, hist |-> hist, raised |-> FALSE]
    ELSE LET r == PerfStep(d, items[1][1], items[1][2])
         IN  IF r.raised
             THEN [d |-> d, hist |-> hist, raised |-> TRUE]
             ELSE AddAll(r.d, Note(hist, items[1][1], items[1][2]), Tail(items))

\* Plugin.add_perf_multi(data)
AddPerfMulti(data) ==
    /\ CanMutate
    /\ LET h0 == [order |-> order, latest |-> latest]
           r == IF TypeOf(data) # "dict"
                THEN [d |-> perfdata, hist |-> h0, raised |-> TRUE]
                ELSE AddAll(perfdata, h0, Payload(data))
       IN  /\ perfdata' = r.d
           /\ order' = r.hist.order
           /\ latest' = r.hist.latest
           /\ call' = [op |-> "add_perf_multi", arg |-> Absent,
                       raised |-> r.raised]
           /\ UNCHANGED <<rangeVars, checkVars, pc, viaMain, message, status, as_json, limit, start, stop, blob, stdout, writes,
                   exitCode, driverWrites, execStatus, entryStatus>>

\* Plugin.finish(as_json, limit): serialize, write once, exit
Finish(json, n) ==
    /\ blob' = Serialize(message, perfdata, json)
    /\ status' = FinalStatus(message, status)
    /\ stdout' = stdout \o Read(blob', n)
    /\ writes' = writes + 1
    /\ exitCode' = StatusValue(status')
    /\ entryStatus' = status
    /\ as_json' = json
    /\ limit' = n
    /\ pc' = "exited"
    /\ call' = [op |-> "finish", arg |-> Absent, raised |-> FALSE]
    /\ UNCHANGED <<rangeVars, checkVars, viaMain, message, perfdata, start, stop, order, latest,
                   driverWrites, execStatus>>

\* finish() called on a directly used object, with any arguments
FinishDirect(json, n) ==
    /\ pc = "constructed"
    /\ Finish(json, n)

\* run(): `instance = Check(); instance.main()`; main() parses the arguments and
\* reads the clock
MainStart(json, now) ==
    /\ pc = "constructed"
    /\ call = NoCall
    /\ as_json' = json
    /\ start' = now
    /\ pc' = "executing"
    /\ viaMain' = TRUE
    /\ UNCHANGED <<rangeVars, checkVars, message, status, perfdata, limit, stop, blob, stdout, writes,
                   exitCode, call, order, latest, driverWrites, execStatus,
                   entryStatus>>

\* execute() returns; main() reads the clock again
ExecuteReturn(now) ==
    /\ pc = "executing"
    /\ now >= start
    /\ stop' = now
    /\ execStatus' = status
    /\ pc' = "executed"
    /\ UNCHANGED <<rangeVars, checkVars, viaMain, message, status, perfdata, as_json, limit, start, blob, stdout,
                   writes, exitCode, call, order, latest, driverWrites,
                   entryStatus>>

\* execute() raises: Plugin.execute itself (RuntimeError) or the probe's code
ExecuteRaises ==
    /\ pc = "executing"
    /\ pc' = "aborted"
    /\ UNCHANGED <<rangeVars, checkVars, viaMain, message, status, perfdata, as_json, limit, start, stop, blob, stdout,
                   writes, exitCode, call, order, latest, driverWrites,
                   execStatus, entryStatus>>

\* one of main()'s three add_perf calls
DriverAdd(at, key, value, next) ==
    /\ pc = at
    /\ LET r == PerfStep(perfdata, key, value)
           h == IF r.raised
                THEN [order |-> order, latest |-> latest]
                ELSE Note([order |-> order, latest |-> latest],
                          key, value)
       IN  /\ perfdata' = r.d
           /\ order' = h.order
           /\ latest' = h.latest
           /\ call' = [op |-> "add_perf", arg |-> value, raised |-> r.raised]
           /\ pc' = IF r.raised THEN "aborted" ELSE next
    /\ driverWrites' = [driverWrites EXCEPT ![key] = @ + 1]
    /\ UNCHANGED <<rangeVars, checkVars, viaMain, message, status, as_json, limit, start, stop, blob, stdout, writes,
                   exitCode, execStatus, entryStatus>>

\* self.add_perf("epoch", start)
DriverEpoch == DriverAdd("executed", KeyEpoch, FloatV(start), "epoch")

\* self.add_perf("runtime", f"{runtime:.2f}")
DriverRuntime == DriverAdd("epoch", KeyRuntime, StrV(Fmt2(stop - start)), "runtime")

\* self.add_perf("state", self.status.name)
DriverState == DriverAdd("runtime", KeyState, StrV(StatusName(status)), "state")

\* self.finish(as_json=self.opts.as_json)
MainFinish ==
    /\ pc = "state"
    /\ Finish(as_json, DefaultLimit)

Next ==
    \/ \E v \in MessageInputs : SetMessage(v)
    \/ \E v \in StatusInputs : SetStatus(v)
    \/ \E k \in KeyInputs, v \in ValueInputs : AddPerf(k, v)
    \/ \E d \in MultiInputs : AddPerfMulti(d)
    \/ \E j \in BOOLEAN, n \in Limits \cup {DefaultLimit} : FinishDirect(j, n)
    \/ \E j \in BOOLEAN, t \in Clock : MainStart(j, t)
    \/ \E t \in Clock : ExecuteReturn(t)
    \/ ExecuteRaises
    \/ DriverEpoch
    \/ DriverRuntime
    \/ DriverState
    \/ MainFinish

Spec == Init /\ [][Next]_vars

(***************************************************************************)
(* The message setter exercised alone, on longer texts.                    *)
(***************************************************************************)
NextMessage ==
    \/ \E v \in MessageInputsUpTo(MaxText) : SetMessage(v)
    \/ \E j \in BOOLEAN, n \in Limits : FinishDirect(j, n)

SpecMessage == Init /\ [][NextMessage]_vars

(***************************************************************************)
(* The range-specification type (libnagios.args.Range, exercised by        *)
(* tests/libnagios_args_test.py), for the integer domain.                  *)
(***************************************************************************)
\* Python's integers are unbounded and the domain maximum does not fit a machine
\* word of the checker, so an integer n is carried as <<n div 2^16, n mod 2^16>>
\* (floor division): the order of the integers is the lexicographic order of
\* these pairs.
Limb == 256 * 256

Big(n) == <<n \div Limb, n % Limb>>

LessEq(x, y) == x[1] < y[1] \/ (x[1] = y[1] /\ x[2] <= y[2])

Less(x, y) == x[1] < y[1] \/ (x[1] = y[1] /\ x[2] < y[2])

\* -x
Negate(x) == IF x[2] = 0 THEN <<0 - x[1], 0>> ELSE <<(0 - x[1]) - 1, Limb - x[2]>>

\* 10 * x + d
Times10Plus(x, d) == <<10 * x[1] + ((10 * x[2] + d) \div Limb), (10 * x[2] + d) % Limb>>

\* x + 1
Succ(x) == IF x[2] = Limb - 1 THEN <<x[1] + 1, 0>> ELSE <<x[1], x[2] + 1>>

\* MAX = 2**32 - 1
DomainMax == <<Limb - 1, Limb - 1>>
\* low of the form "<n>"
BareLow == Big(0)
\* low of the forms "@:<b>" and "@:"
DefaultLow == Big(1)

Digits == {"0", "1", "2", "3", "4", "5", "6", "7", "8", "9"}

DigitValue(c) == CHOOSE d \in 0..9 : Digit(d) = c

RECURSIVE NatValue(_)
NatValue(t) ==
    IF t = <<>> THEN Big(0)
    ELSE Times10Plus(NatValue(SubSeq(t, 1, Len(t) - 1)), DigitValue(t[Len(t)]))

OmittedLowAsBare == BareLow

\* the low bound of a form that leaves it out
OmittedLow == DefaultLow

\* whether int(token) succeeds: an optional sign and at least one digit
IsNumeric(t) ==
    LET body == IF t # <<>> /\ t[1] = "-" THEN Tail(t) ELSE t
    IN  body # <<>> /\ Elems(body) \subseteq Digits

\* int(token)
IntValue(t) == IF t[1] = "-" THEN Negate(NatValue(Tail(t))) ELSE NatValue(t)

FailedAsDefault == [ok |-> TRUE, low |-> Big(0), high |-> Big(1), inverse |-> FALSE]

Failed == [ok |-> FALSE, low |-> Big(0), high |-> Big(0), inverse |-> FALSE]

\* Range(spec): the grammar and the defaults of the five forms
\*   "<n>"       low 0, high n
\*   "@<a>:<b>"  low min(a, b), high max(a, b), inverse iff a > b
\*   "@:<b>"     low 1, high b
\*   "@<a>:"     low a, high 2^32 - 1
\*   "@:"        low 1, high 2^32 - 1
\* and ValueError for a token that is no number
RangeParse(s) ==
    IF s # <<>> /\ s[1] = "@"
    THEN IF Positions(Tail(s), ":") = {} THEN Failed
         ELSE LET body == Tail(s)
                  c == CHOOSE j \in Positions(body, ":") :
                          \A k \in Positions(body, ":") : j <= k
                  lo == SubSeq(body, 1, c - 1)
                  hi == SubSeq(body, c + 1, Len(body))
              IN  IF (lo # <<>> /\ ~IsNumeric(lo)) \/ (hi # <<>> /\ ~IsNumeric(hi))
                  THEN Failed
                  ELSE IF lo # <<>> /\ hi # <<>>
                  THEN IF Less(IntValue(hi), IntValue(lo))
                       THEN [ok |-> TRUE, low |-> IntValue(hi), high |-> IntValue(lo),
                             inverse |-> TRUE]
                       ELSE [ok |-> TRUE, low |-> IntValue(lo), high |-> IntValue(hi),
                             inverse |-> FALSE]
                  ELSE [ok |-> TRUE,
                        low |-> IF lo = <<>> THEN OmittedLow ELSE IntValue(lo),
                        high |-> IF hi = <<>> THEN DomainMax ELSE IntValue(hi),
                        inverse |-> FALSE]
    ELSE IF ~IsNumeric(s) THEN Failed
         ELSE [ok |-> TRUE, low |-> BareLow, high |-> IntValue(s), inverse |-> FALSE]

\* whether float(token) succeeds: an optional sign, digits around at most one
\* point, at least one digit
IsReal(t) ==
    LET body == IF t # <<>> /\ t[1] = "-" THEN Tail(t) ELSE t
        digits == SelectSeq(body, LAMBDA ch : ch # ".")
    IN  /\ digits # <<>>
        /\ Elems(digits) \subseteq Digits
        /\ Len(body) - Len(digits) <= 1

\* whether FRange(spec) constructs: the grammar of Range with real tokens
FRangeAccepts(s) ==
    IF s # <<>> /\ s[1] = "@"
    THEN /\ Positions(Tail(s), ":") # {}
         /\ LET body == Tail(s)
                c == CHOOSE j \in Positions(body, ":") :
                        \A k \in Positions(body, ":") : j <= k
                lo == SubSeq(body, 1, c - 1)
                hi == SubSeq(body, c + 1, Len(body))
            IN  (lo = <<>> \/ IsReal(lo)) /\ (hi = <<>> \/ IsReal(hi))
    ELSE IsReal(s)

RangeContainsInverseClosed(r, v) ==
    IF r.inverse
    THEN LessEq(v, r.low) \/ LessEq(r.high, v)
    ELSE LessEq(r.low, v) /\ LessEq(v, r.high)

\* `value in range`
RangeContains(r, v) ==
    IF r.inverse
    THEN Less(v, r.low) \/ Less(r.high, v)
    ELSE LessEq(r.low, v) /\ LessEq(v, r.high)

Numbers == (0 - MaxNum)..MaxNum

\* the string of a form: "<a>", "@<a>:<b>", "@:<b>", "@<a>:", "@:"
Render(form, a, b) ==
    CASE form = "bare" -> IntStr(a)
      [] form = "both" -> <<"@">> \o IntStr(a) \o <<":">> \o IntStr(b)
      [] form = "high" -> <<"@", ":">> \o IntStr(b)
      [] form = "low" -> <<"@">> \o IntStr(a) \o <<":">>
      [] form = "open" -> <<"@", ":">>

\* the inputs: every form over the numbers, each used slot filled
Givens ==
    {[form |-> "bare", a |-> a, b |-> 0] : a \in Numbers}
    \cup {[form |-> "both", a |-> a, b |-> b] : a \in Numbers, b \in Numbers}
    \cup {[form |-> "high", a |-> 0, b |-> b] : b \in Numbers}
    \cup {[form |-> "low", a |-> a, b |-> 0] : a \in Numbers}
    \cup {[form |-> "open", a |-> 0, b |-> 0]}

\* the values tested: around the numbers and around the domain maximum
Probes ==
    {Big(n) : n \in ((0 - MaxNum) - 1)..(MaxNum + 1)}
    \cup {<<Limb - 1, Limb - 2>>, DomainMax, Succ(DomainMax)}

\* range = Range(spec), once per threshold option
ConstructRange(g) ==
    /\ given = NoGiven
    /\ given' = g
    /\ rspec' = Render(g.form, g.a, g.b)
    /\ range' = RangeParse(rspec')
    /\ UNCHANGED <<pluginVars, checkVars, probe, inRange>>

\* value in range
TestRange(v) ==
    /\ range.ok
    /\ probe' = v
    /\ inRange' = RangeContains(range, v)
    /\ UNCHANGED <<pluginVars, checkVars, given, rspec, range>>

NextRange ==
    \/ \E g \in Givens : ConstructRange(g)
    \/ \E v \in Probes : TestRange(v)

SpecRange == Init /\ [][NextRange]_vars

(***************************************************************************)
(* The process-count probe (src/libnagios/checks/check_cp_procs.py), run   *)
(* by main(): argument parsing, execute(), the driver's writes, finish().  *)
(***************************************************************************)
\* largest process count the sampling layer reports
MaxCount == 6

\* the clock readings tried in a run of a probe: the earliest and the latest
Readings == {0, MaxTime}

\* x div 10 and x mod 10
Div10(x) == <<x[1] \div 10, ((x[1] % 10) * Limb + x[2]) \div 10>>

Mod10(x) == ((x[1] % 10) * Limb + x[2]) % 10

RECURSIVE BigNatStr(_)
BigNatStr(x) ==
    IF x[1] = 0 /\ x[2] < 10 THEN <<Digit(x[2])>>
    ELSE BigNatStr(Div10(x)) \o <<Digit(Mod10(x))>>

\* f"{n}" of an int
BigStr(x) == IF x[1] < 0 THEN <<"-">> \o BigNatStr(Negate(x)) ELSE BigNatStr(x)

\* the texts given to -w and -c; "1" is the default of both
ArgTexts == {<<"1">>, <<"5">>, <<"@", "1", ":", "5">>, <<"@", "5", ":", "1">>, <<"@", ":", "3">>, <<"@", "2", ":">>, <<"@", "a", ":", "b">>, <<"@", "1", ":", "b">>}

\* the values of -u: none, a uid, a name
UserInputs == {NoneV, StrV(<<"0">>), StrV(<<"7">>), StrV(<<"r">>), StrV(<<"x">>)}

\* the values of -C
CommandInputs == {NoneV, StrV(<<"a">>), StrV(<<"|">>)}

\* the values of -m that are tried
MetricInputs == {<<"P", "R", "O", "C", "S">>, <<"V", "S", "Z">>}

Counts == 0..MaxCount

\* the password database: uid 0 is user r
Passwd == {[uid |-> Big(0), name |-> <<"r">>]}

\* execute(): the user name to filter by, or UnknownError
ResolveUser(u) ==
    IF u = NoneV \/ u = StrV(<<>>) THEN [ok |-> TRUE, user |-> NoneV]
    ELSE IF IsNumeric(Payload(u))
    THEN IF \E e \in Passwd : e.uid = IntValue(Payload(u))
         THEN [ok |-> TRUE,
               user |-> StrV((CHOOSE e \in Passwd : e.uid = IntValue(Payload(u))).name)]
         ELSE [ok |-> FALSE, user |-> NoneV]
    ELSE IF \E e \in Passwd : e.name = Payload(u)
         THEN [ok |-> TRUE, user |-> u]
         ELSE [ok |-> FALSE, user |-> NoneV]

\* f" - {word} range {low} to {high}"
RangeWords(r) ==
    <<" ", "-", " ">> \o (IF r.inverse THEN <<"i", "n", "s", "i", "d", "e">> ELSE <<"o", "u", "t", "s", "i", "d", "e">>) \o <<" ", "r", "a", "n", "g", "e", " ">> \o
    BigStr(r.low) \o <<" ", "t", "o", " ">> \o BigStr(r.high)

ProcessProcsCriticalFirst(st, count, warn, critical) ==
    LET c == ~RangeContains(critical, Big(count))
        w == ~RangeContains(warn, Big(count))
    IN  [status |-> IF w THEN "WARN" ELSE IF c THEN "CRITICAL" ELSE st,
         msg |-> NatStr(count) \o <<" ", "p", "r", "o", "c", "e", "s", "s", "e", "s">>,
         range |-> IF w THEN RangeWords(warn)
                   ELSE IF c THEN RangeWords(critical) ELSE <<>>]

\* process_procs: the warning range is tested first, the critical range second,
\* and each assigns the status when the count is not in it
ProcessProcs(st, count, warn, critical) ==
    LET w == ~RangeContains(warn, Big(count))
        c == ~RangeContains(critical, Big(count))
    IN  [status |-> IF c THEN "CRITICAL" ELSE IF w THEN "WARN" ELSE st,
         msg |-> NatStr(count) \o <<" ", "p", "r", "o", "c", "e", "s", "s", "e", "s">>,
         range |-> IF c THEN RangeWords(critical)
                   ELSE IF w THEN RangeWords(warn) ELSE <<>>]

\* TEMPLATE.strip().format(**state)
ProcsMessage(st, command, user, msg, rng) ==
    <<"P", "r", "o", "c", "e", "s", "s", "e", "s", " ">> \o StatusName(st) \o <<" ", ":", ":", " ">> \o
    (IF Truthy(command) THEN <<"C", "o", "m", "m", "a", "n", "d", " ">> \o Payload(command) \o <<" ", "h", "a", "s", " ">> ELSE <<>>) \o
    msg \o
    (IF Truthy(user) THEN <<" ", "f", "o", "r", " ", "u", "s", "e", "r", " ">> \o Payload(user) ELSE <<>>) \o
    rng

\* main() of the probe up to the clock reading: cli() and parse_args(), which
\* hands each -w/-c text to Range; a ValueError there makes argparse print its
\* usage error and end the process before execute() is reached
ProcsStart(w, c, u, cmd, metric, json, now) ==
    /\ pc = "constructed"
    /\ call = NoCall
    /\ opts = NoOpts
    /\ opts' = [probe |-> "procs", warnText |-> w, criticalText |-> c,
                warn |-> RangeParse(w), critical |-> RangeParse(c),
                user |-> u, command |-> cmd, metric |-> metric]
    /\ viaMain' = TRUE
    /\ IF RangeParse(w).ok /\ RangeParse(c).ok
       THEN /\ as_json' = json
            /\ start' = now
            /\ pc' = "executing"
       ELSE /\ pc' = "usage"
            /\ UNCHANGED <<as_json, start>>
    /\ UNCHANGED <<rangeVars, sample, db, inv, message, status, perfdata, limit, stop,
                   blob, stdout, writes, exitCode, call, order, latest, driverWrites,
                   execStatus, entryStatus>>

\* Check.execute of the process-count probe, and main()'s clock reading after it
ProcsExecute(count, now) ==
    /\ pc = "executing"
    /\ opts.probe = "procs"
    /\ now >= start
    /\ LET u == ResolveUser(opts.user)
           r == IF opts.metric = <<"P", "R", "O", "C", "S">>
                THEN ProcessProcs(status, count, opts.warn, opts.critical)
                ELSE [status |-> "UNKNOWN",
                      msg |-> <<"U", "n", "h", "a", "n", "d", "l", "e", "d", " ", "m", "e", "t", "r", "i", "c", " ", "t", "y", "p", "e", " ">> \o opts.metric,
                      range |-> <<>>]
           text == StrV(ProcsMessage(r.status, opts.command, u.user, r.msg, r.range))
       IN  IF ~u.ok
           THEN /\ sample' = [probe |-> "procs", sampled |-> FALSE, count |-> 0]
                /\ pc' = "aborted"
                /\ UNCHANGED <<status, message, call, stop, execStatus>>
           ELSE /\ sample' = [probe |-> "procs", sampled |-> opts.metric = <<"P", "R", "O", "C", "S">>,
                              count |-> IF opts.metric = <<"P", "R", "O", "C", "S">> THEN count ELSE 0]
                /\ status' = r.status
                /\ call' = [op |-> "message", arg |-> text,
                            raised |-> MessageRejects(text)]
                /\ IF MessageRejects(text)
                   THEN /\ pc' = "aborted"
                        /\ UNCHANGED <<message, stop, execStatus>>
                   ELSE /\ message' = MessageStored(text)
                        /\ stop' = now
                        /\ execStatus' = r.status
                        /\ pc' = "executed"
    /\ UNCHANGED <<rangeVars, opts, db, inv, viaMain, perfdata, as_json, limit, start,
                   blob, stdout, writes, exitCode, order, latest, driverWrites,
                   entryStatus>>

NextProcs ==
    \/ \E w \in ArgTexts, c \in ArgTexts, u \in UserInputs, cmd \in CommandInputs,
          m \in MetricInputs, j \in BOOLEAN, t \in Readings :
            ProcsStart(w, c, u, cmd, m, j, t)
    \/ \E n \in Counts, t \in Readings : ProcsExecute(n, t)
    \/ DriverEpoch
    \/ DriverRuntime
    \/ DriverState
    \/ MainFinish

SpecProcs == Init /\ [][NextProcs]_vars

(***************************************************************************)
(* The disk probe (src/libnagios/checks/disk.py), run by main().  Sizes    *)
(* are whole numbers of GiB, thresholds floats with whole values.          *)
(***************************************************************************)
\* largest disk, in units of 100 GiB
MaxDisk == 2

\* -p (or no unit option), -m, -g
UnitInputs == {"percent", "mb", "gb"}

\* <<warn, critical>>; <<20, 10>> are the defaults
ThresholdInputs == {<<20, 10>>, <<60, 30>>, <<1, 0>>}

\* the disk argument
PathInputs == {<<"/">>, <<"/", "|">>}

\* result.total, in GiB
Totals == {100 * k : k \in 1..MaxDisk}

\* result.free, in GiB
Frees == {0, 5, 9, 10, 15, 19, 20, 50, 100}

\* `free < threshold`, free being result.free / divisor with -m or -g and
\* result.free / result.total otherwise
FreeBelow(unit, free, total, threshold) ==
    CASE unit = "mb" -> free * 1024 < threshold
      [] unit = "gb" -> free < threshold
      [] OTHER -> free < threshold * total

\* "Disk space for {:}: {:,.3f}GB Free ({:.2%})".format(...)
DiskMessage(path, free, total) ==
    <<"D", "i", "s", "k", " ", "s", "p", "a", "c", "e", " ", "f", "o", "r", " ">> \o path \o <<":", " ">> \o NatStr(free) \o <<".", "0", "0", "0", "G", "B", " ", "F", "r", "e", "e", " ", "(">> \o
    Fmt2((10000 * free) \div total) \o <<"%", ")">>

\* "Error gathering disk usage: %s" % err
DiskError(path) ==
    <<"E", "r", "r", "o", "r", " ", "g", "a", "t", "h", "e", "r", "i", "n", "g", " ", "d", "i", "s", "k", " ", "u", "s", "a", "g", "e", ":", " ", "[", "E", "r", "r", "n", "o", " ", "2", "]", " ", "N", "o", " ", "s", "u", "c", "h", " ", "f", "i", "l", "e", " ", "o", "r", " ", "d", "i", "r", "e", "c", "t", "o", "r", "y", ":", " ", "'">> \o path \o <<"'">>

\* main() of the probe up to the clock reading
DiskStart(unit, th, path, json, now) ==
    /\ pc = "constructed"
    /\ call = NoCall
    /\ opts = NoOpts
    /\ opts' = [probe |-> "disk", unit |-> unit, warn |-> th[1], critical |-> th[2],
                disk |-> path]
    /\ viaMain' = TRUE
    /\ as_json' = json
    /\ start' = now
    /\ pc' = "executing"
    /\ UNCHANGED <<rangeVars, sample, db, inv, message, status, perfdata, limit, stop,
                   blob, stdout, writes, exitCode, call, order, latest, driverWrites,
                   execStatus, entryStatus>>

\* Check.execute of the disk probe, and main()'s clock reading after it
DiskExecute(free, total, fails, now) ==
    /\ pc = "executing"
    /\ opts.probe = "disk"
    /\ now >= start
    /\ free <= total
    /\ sample' = [probe |-> "disk", failed |-> fails, free |-> IF fails THEN 0 ELSE free,
                  total |-> IF fails THEN 0 ELSE total]
    /\ LET text == IF fails THEN StrV(DiskError(opts.disk))
                   ELSE StrV(DiskMessage(opts.disk, free, total))
           st == IF FreeBelow(opts.unit, free, total, opts.critical) THEN "CRITICAL"
                 ELSE IF FreeBelow(opts.unit, free, total, opts.warn) THEN "WARN"
                 ELSE "OK"
       IN  /\ call' = [op |-> "message", arg |-> text, raised |-> MessageRejects(text)]
           /\ IF MessageRejects(text)
              THEN /\ status' = IF fails THEN status ELSE st
                   /\ pc' = "aborted"
                   /\ UNCHANGED <<message, stop, execStatus>>
              ELSE /\ status' = IF fails THEN "UNKNOWN" ELSE st
                   /\ message' = MessageStored(text)
                   /\ stop' = now
                   /\ execStatus' = status'
                   /\ pc' = "executed"
    /\ UNCHANGED <<rangeVars, opts, db, inv, viaMain, perfdata, as_json, limit, start,
                   blob, stdout, writes, exitCode, order, latest, driverWrites,
                   entryStatus>>

NextDisk ==
    \/ \E u \in UnitInputs, th \in ThresholdInputs, p \in PathInputs, j \in BOOLEAN,
          t \in Readings : DiskStart(u, th, p, j, t)
    \/ \E f \in Frees, g \in Totals, x \in BOOLEAN, t \in Readings : DiskExecute(f, g, x, t)
    \/ DriverEpoch
    \/ DriverRuntime
    \/ DriverState
    \/ MainFinish

SpecDisk == Init /\ [][NextDisk]_vars

(***************************************************************************)
(* The load-average probe (src/libnagios/checks/load.py), run by main().   *)
(* Load averages are carried in hundredths.                                *)
(***************************************************************************)
\* largest load average the sampling layer reports, in units of 1.00
MaxLoad == 3

\* the three values of -w and of -c; <<10, 8, 7>> and <<12, 10, 9>> are the defaults
LoadWarnInputs == {<<10, 8, 7>>, <<1, 1, 1>>}

LoadCriticalInputs == {<<12, 10, 9>>, <<3, 3, 3>>}

\* psutil.getloadavg(): the 1, 5 and 15 minute averages
LoadInputs == {<<100 * k, 50, 50>> : k \in 0..MaxLoad}

\* main() of the probe up to the clock reading
LoadStart(w, c, json, now) ==
    /\ pc = "constructed"
    /\ call = NoCall
    /\ opts = NoOpts
    /\ opts' = [probe |-> "load", warn |-> w, critical |-> c]
    /\ viaMain' = TRUE
    /\ as_json' = json
    /\ start' = now
    /\ pc' = "executing"
    /\ UNCHANGED <<rangeVars, sample, db, inv, message, status, perfdata, limit, stop,
                   blob, stdout, writes, exitCode, call, order, latest, driverWrites,
                   execStatus, entryStatus>>

\* Check.execute of the load probe: an OSError of the sampling call is turned
\* into UNKNOWN; after a sample, `print(opts.warn)` names a variable that does
\* not exist and raises NameError, which nothing catches
LoadExecute(load, fails, now) ==
    /\ pc = "executing"
    /\ opts.probe = "load"
    /\ now >= start
    /\ sample' = [probe |-> "load", failed |-> fails,
                  load |-> IF fails THEN <<0, 0, 0>> ELSE load]
    /\ IF fails
       THEN /\ message' = MessageStored(StrV(
                 <<"E", "r", "r", "o", "r", " ", "g", "a", "t", "h", "e", "r", "i", "n", "g", " ", "l", "o", "a", "d", " ", "a", "v", "e", "r", "a", "g", "e", ":", " ", "[", "E", "r", "r", "n", "o", " ", "3", "8", "]", " ", "F", "u", "n", "c", "t", "i", "o", "n", " ", "n", "o", "t", " ", "i", "m", "p", "l", "e", "m", "e", "n", "t", "e", "d">>))
            /\ call' = [op |-> "message", arg |-> Absent, raised |-> FALSE]
            /\ status' = "UNKNOWN"
            /\ stop' = now
            /\ execStatus' = "UNKNOWN"
            /\ pc' = "executed"
       ELSE /\ pc' = "aborted"
            /\ UNCHANGED <<message, call, status, stop, execStatus>>
    /\ UNCHANGED <<rangeVars, opts, db, inv, viaMain, perfdata, as_json, limit, start,
                   blob, stdout, writes, exitCode, order, latest, driverWrites,
                   entryStatus>>

NextLoad ==
    \/ \E w \in LoadWarnInputs, c \in LoadCriticalInputs, j \in BOOLEAN, t \in Readings :
          LoadStart(w, c, j, t)
    \/ \E l \in LoadInputs, x \in BOOLEAN, t \in Readings : LoadExecute(l, x, t)
    \/ DriverEpoch
    \/ DriverRuntime
    \/ DriverState
    \/ MainFinish

SpecLoad == Init /\ [][NextLoad]_vars

(***************************************************************************)
(* The CPU probe (src/libnagios/checks/cpu.py) and its state store, a dbm  *)
(* file keyed by timestamp that every invocation writes, lists, prunes and *)
(* reads without locking.  Each invocation is a process of its own with    *)
(* its own Plugin object, kept in inv[i].                                  *)
(***************************************************************************)
\* largest reading of the clock, in seconds
MaxClock == 5
\* largest value of --time-span
MaxSpan == 1

SpanInputs == 1..MaxSpan

\* user-CPU percentages given with -w; 80 is the default
WarnInputs == {80, 5}

\* ways the -w/-c pairs can be wrong: an unknown state name, a value that is
\* no float
BadInputs == {"none", "state", "float"}

\* the deltas of the counters since the history sample, in percent of the
\* total: <<user, system>>, the rest being idle
DeltaInputs == {<<10, 5>>, <<85, 5>>, <<10, 60>>}

\* the fields of psutil.cpu_times() that are modelled, in their order
Fields == <<"user", "system", "idle">>

FieldText(k) ==
    CASE k = "user" -> <<"u", "s", "e", "r">> [] k = "system" -> <<"s", "y", "s", "t", "e", "m">> [] k = "idle" -> <<"i", "d", "l", "e">>

\* the last reading any invocation took of the clock
ClockOf(s) == IF s.probe = "cpu" THEN s.clock ELSE 0

\* old = now - self.opts.span * 3
Old(v) == v.now - v.span * 3

PrunesNothing(ts, old) == FALSE

\* `if ts < old`
Prunes(ts, old) == ts < old

\* abs(self.opts.span - (now - ts))
Distance(v, ts) ==
    IF v.span - (v.now - ts) < 0 THEN 0 - (v.span - (v.now - ts))
    ELSE v.span - (v.now - ts)

\* the message of an invalid -w/-c pair
BadMessage(bad) ==
    IF bad = "state"
    THEN <<"I", "n", "v", "a", "l", "i", "d", " ", "C", "P", "U", " ", "s", "t", "a", "t", "e", ":", " ", "[", "x", "]", ".", " ", "V", "a", "l", "i", "d", " ", "v", "a", "l", "u", "e", "s", " ", "a", "r", "e", " ", "[">> \o
         Join(<<",", " ">>, [i \in DOMAIN Fields |-> FieldText(Fields[i])]) \o <<"]">>
    ELSE <<"W", "a", "r", "n", " ", "v", "a", "l", "u", "e", " ", "f", "o", "r", " ", "u", "s", "e", "r", " ", "m", "u", "s", "t", " ", "b", "e", " ", "a", " ", "f", "l", "o", "a", "t">>

\* the lines of the thresholds that are passed, in the order of the dict
AlertLines(word, label, th, stats, secs) ==
    LET line(k) == word \o <<":", " ">> \o FieldText(k) \o <<" ", "C", "P", "U", " ", "i", "s", " ">> \o NatStr(stats[k]) \o
                   <<"%", " ", "f", "o", "r", " ", "t", "h", "e", " ", "l", "a", "s", "t", " ">> \o NatStr(secs) \o <<" ", "s", "e", "c", "o", "n", "d", "s">>
        keys == SelectSeq(<<"user", "system">>, LAMBDA k : stats[k] > th[k])
    IN  [i \in DOMAIN keys |-> line(keys[i])]

\* lines 174-218: the percentages, the thresholds, the message and the perfdata
Evaluate(v, p, q) ==
    LET stats == [user |-> p, system |-> q, idle |-> (100 - p) - q]
        secs == IF v.closest - v.now < 0 THEN v.now - v.closest ELSE v.closest - v.now
        critical == [user |-> 80, system |-> 50]
        warn == [user |-> v.warn, system |-> 50]
        crit == AlertLines(<<"C", "R", "I", "T", "I", "C", "A", "L">>, "CRITICAL", critical, stats, secs)
        wrn == IF crit = <<>> THEN AlertLines(<<"W", "A", "R", "N", "I", "N", "G">>, "WARN", warn, stats, secs)
               ELSE <<>>
        head == IF crit # <<>> THEN crit
                ELSE IF wrn # <<>> THEN wrn
                ELSE <<<<"C", "P", "U", " ", "U", "s", "a", "g", "e", " ", "O", "K", " ", "a", "t", " ">> \o Fmt2(100 * (p + q)) \o <<"%">>>>
        usage == [i \in 1..3 |->
                    FieldText(<<"idle", "system", "user">>[i]) \o <<" ", "C", "P", "U", " ", "u", "s", "a", "g", "e", ":", " ">> \o
                    Fmt2(100 * stats[<<"idle", "system", "user">>[i]]) \o <<"%">>]
    IN  [status |-> IF crit # <<>> THEN "CRITICAL"
                    ELSE IF wrn # <<>> THEN "WARN" ELSE v.status,
         message |-> MessageStored(StrV(Join(<<"\n">>, head \o usage))),
         perf |-> [i \in DOMAIN Fields |->
                     <<StrV(<<"c", "p", "u", "_">> \o FieldText(Fields[i])), FloatV(100 * stats[Fields[i]])>>]]

\* main() up to the open of the store: parse_args(), the validation of the -w/-c
\* pairs, dbm.open(self.opts.state, "c")
CpuBegin(i, span, warn, bad, opens) ==
    /\ inv[i].pc = "idle"
    /\ inv' = [inv EXCEPT ![i] =
                 IF bad # "none"
                 THEN [Idle EXCEPT !.pc = "returned", !.span = span, !.warn = warn,
                                   !.status = "UNKNOWN",
                                   !.message = MessageStored(StrV(BadMessage(bad)))]
                 ELSE IF ~opens
                 THEN [Idle EXCEPT !.pc = "returned", !.span = span, !.warn = warn,
                                   !.status = "UNKNOWN",
                                   !.message = MessageStored(StrV(
                                       <<"F", "a", "i", "l", "e", "d", " ", "t", "o", " ", "o", "p", "e", "n", " ", "s", "t", "a", "t", "e", " ", "d", "b", ":", " ", "d", "e", "n", "i", "e", "d">>))]
                 ELSE [Idle EXCEPT !.pc = "opened", !.span = span, !.warn = warn]]
    /\ UNCHANGED <<pluginVars, rangeVars, opts, sample, db>>

\* now = int(time.time()); db[str(now)] = json.dumps(...)
CpuStore(i, t) ==
    /\ inv[i].pc = "opened"
    /\ t >= ClockOf(sample)
    /\ sample' = [probe |-> "cpu", clock |-> t]
    /\ db' = db \cup {t}
    /\ inv' = [inv EXCEPT ![i].now = t, ![i].pc = "stored"]
    /\ UNCHANGED <<pluginVars, rangeVars, opts>>

\* closest = None; list(db.keys())
CpuList(i) ==
    /\ inv[i].pc = "stored"
    /\ inv' = [inv EXCEPT ![i].keys = db, ![i].closest = NoClosest, ![i].pc = "looping"]
    /\ UNCHANGED <<pluginVars, rangeVars, opts, sample, db>>

\* one turn of the loop, on the key the listing yields next (dbm lists its keys
\* in no particular order); `del db[key]` raises KeyError when the key is gone
CpuLoop(i, ts) ==
    /\ inv[i].pc = "looping"
    /\ ts \in inv[i].keys
    /\ IF Prunes(ts, Old(inv[i]))
       THEN IF ts \in db
            THEN /\ db' = db \ {ts}
                 /\ inv' = [inv EXCEPT ![i].keys = @ \ {ts}]
            ELSE /\ db' = db
                 /\ inv' = [inv EXCEPT ![i].pc = "crashed"]
       ELSE /\ db' = db
            /\ inv' = [inv EXCEPT
                 ![i].keys = @ \ {ts},
                 ![i].closest =
                     IF ts = inv[i].now THEN @
                     ELSE IF @ = NoClosest THEN ts
                     ELSE IF Distance(inv[i], ts) < Distance(inv[i], @) THEN ts
                     ELSE @]
    /\ UNCHANGED <<pluginVars, rangeVars, opts, sample>>

\* after the loop: "Not enough data points yet..", or history = db[str(closest)],
\* which raises KeyError when the key is gone
CpuLookup(i) ==
    /\ inv[i].pc = "looping"
    /\ inv[i].keys = {}
    /\ inv' = [inv EXCEPT ![i] =
                 IF inv[i].closest = NoClosest
                 THEN [@ EXCEPT !.pc = "returned",
                                !.message = MessageStored(StrV(
                                    <<"N", "o", "t", " ", "e", "n", "o", "u", "g", "h", " ", "d", "a", "t", "a", " ", "p", "o", "i", "n", "t", "s", " ", "y", "e", "t", ".", ".">>))]
                 ELSE IF inv[i].closest \notin db
                 THEN [@ EXCEPT !.pc = "crashed"]
                 ELSE [@ EXCEPT !.pc = "found"]]
    /\ UNCHANGED <<pluginVars, rangeVars, opts, sample, db>>

\* the rest of execute(), on the deltas between the history sample and now
CpuEvaluate(i, p, q) ==
    /\ inv[i].pc = "found"
    /\ LET r == Evaluate(inv[i], p, q)
       IN  inv' = [inv EXCEPT ![i].status = r.status, ![i].message = r.message,
                              ![i].perf = r.perf, ![i].pc = "returned"]
    /\ UNCHANGED <<pluginVars, rangeVars, opts, sample, db>>

\* main() after execute(): finish() and the exit code
CpuFinish(i) ==
    /\ inv[i].pc = "returned"
    /\ inv' = [inv EXCEPT ![i].status = FinalStatus(inv[i].message, @),
                          ![i].exit = StatusValue(FinalStatus(inv[i].message,
                                                              inv[i].status)),
                          ![i].pc = "exited"]
    /\ UNCHANGED <<pluginVars, rangeVars, opts, sample, db>>

\* the process is gone; the scheduler may start the probe again
CpuReap(i) ==
    /\ inv[i].pc \in {"exited", "crashed"}
    /\ inv' = [inv EXCEPT ![i] = Idle]
    /\ UNCHANGED <<pluginVars, rangeVars, opts, sample, db>>

CpuSteps(i) ==
    \/ \E s \in SpanInputs, w \in WarnInputs, b \in BadInputs, o \in BOOLEAN :
          CpuBegin(i, s, w, b, o)
    \/ \E t \in 0..MaxClock : CpuStore(i, t)
    \/ CpuList(i)
    \/ \E ts \in 0..MaxClock : CpuLoop(i, ts)
    \/ CpuLookup(i)
    \/ \E d \in DeltaInputs : CpuEvaluate(i, d[1], d[2])
    \/ CpuFinish(i)
    \/ CpuReap(i)

\* invocations that overlap freely
NextCpu == \E i \in Invocations : CpuSteps(i)

SpecCpu == Init /\ [][NextCpu]_vars

\* invocations one after the other, as the scheduler is expected to run them
NextCpuSeq == CpuSteps(1)

SpecCpuSeq == Init /\ [][NextCpuSeq]_vars

(***************************************************************************)
(* Properties of the Plugin template.                                      *)
(***************************************************************************)
Exited == pc = "exited"

\* C1: whenever finish() has ended the process, the exit code is the numeric value
\* of the status held at that moment under OK=0, WARN=1, CRITICAL=2, UNKNOWN=3, and
\* no exit code exists before.
C1_ExitCodeIsStatusValue ==
    /\ Exited =>
         /\ status = "OK" => exitCode = 0
         /\ status = "WARN" => exitCode = 1
         /\ status = "CRITICAL" => exitCode = 2
         /\ status = "UNKNOWN" => exitCode = 3
    /\ ~Exited => exitCode = NoExit

\* a run of main() that ended with a WARN status and exit code 1
C1_Witness == Exited /\ viaMain /\ entryStatus = "WARN" /\ status = "WARN" /\ exitCode = 1

\* C2: when finish() runs with the message never set or empty, the serialized text
\* starts with the fixed placeholder (stdout receives its first `limit` characters),
\* and the status is forced to CRITICAL, exit code 2, whatever it was before.
C2_EmptyMessageForcesCritical ==
    (Exited /\ (message = NoneV \/ message = StrV(<<>>))) =>
        /\ status = "CRITICAL"
        /\ exitCode = 2
        /\ IsPrefix(Placeholder, blob)
        /\ stdout = SubSeq(blob, 1, Min(limit, Len(blob)))
        /\ viaMain => IsPrefix(Placeholder, stdout)

\* finish() ran on a message that strips to empty while the status was WARN
C2_Witness ==
    /\ Exited
    /\ message = StrV(<<>>)
    /\ entryStatus = "WARN"
    /\ status = "CRITICAL"
    /\ IsPrefix(Placeholder, stdout)

\* the stored message has no '|' and neither leading nor trailing whitespace
MessageClean ==
    \/ message = NoneV
    \/ /\ TypeOf(message) = "str"
       /\ "|" \notin Elems(Payload(message))
       /\ Payload(message) # <<>> =>
            /\ Payload(message)[1] \notin Whitespace
            /\ Payload(message)[Len(Payload(message))] \notin Whitespace

\* text is stored with only whitespace removed at its two ends
StrippedOf(stored, text) ==
    \E i \in 0..Len(text), j \in 0..Len(text) :
        /\ i + j <= Len(text)
        /\ \A k \in 1..i : text[k] \in Whitespace
        /\ \A k \in (Len(text) - j + 1)..Len(text) : text[k] \in Whitespace
        /\ stored = SubSeq(text, i + 1, Len(text) - j)

\* C3: after any sequence of message assignments the stored message has no '|'
\* and no surrounding whitespace; a text with '|' is refused with an error and the
\* message stays what it was; an accepted text is stored stripped.
C3_MessageCleanAndStripped ==
    /\ [](/\ MessageClean
          /\ (call.op = "message" /\ TypeOf(call.arg) = "str"
                /\ "|" \in Elems(Payload(call.arg))) => call.raised
          /\ (call.op = "message" /\ ~call.raised) =>
                /\ TypeOf(call.arg) = "str"
                /\ StrippedOf(Payload(message), Payload(call.arg))
                /\ MessageClean)
    /\ [][(call'.op = "message" /\ call'.raised) => message' = message]_vars

\* the text " a " was assigned and is stored as "a"
C3_Witness ==
    /\ call.op = "message"
    /\ call.arg = StrV(<<" ", "a", " ">>)
    /\ ~call.raised
    /\ message = StrV(<<"a">>)

\* C4: add_perf(key, value) with a value that is no str, int or float raises and
\* leaves perfdata alone, so that perfdata never holds such a value.
C4_NonScalarValueRejected ==
    /\ (call.op = "add_perf" /\ TypeOf(call.arg) \notin ScalarTypes) => call.raised
    /\ \A i \in DOMAIN perfdata : TypeOf(perfdata[i][2]) \in ScalarTypes

DriverValue(key) ==
    CASE key = KeyEpoch -> FloatV(start)
      [] key = KeyRuntime -> StrV(Fmt2(stop - start))
      [] key = KeyState -> StrV(StatusName(execStatus))

\* the text after the delimiter
PerfPart(text) ==
    IF Positions(text, "|") = {} THEN <<>>
    ELSE SubSeq(text, 1 + (CHOOSE j \in Positions(text, "|") :
                              \A k \in Positions(text, "|") : j <= k), Len(text))

\* C5: in a run of main() the driver writes epoch, runtime and state once each,
\* after execute() has returned and before anything is serialized, and the
\* serialized perfdata carries the driver's values whatever the probe stored.
C5_ReservedKeysWrittenOnceByDriver ==
    /\ pc \in {"constructed", "executing", "executed"} =>
         \A k \in ReservedKeys : driverWrites[k] = 0
    /\ pc = "epoch" =>
         driverWrites = [k \in ReservedKeys |-> IF k = KeyEpoch THEN 1 ELSE 0]
    /\ pc = "runtime" =>
         driverWrites = [k \in ReservedKeys |-> IF k = KeyState THEN 0 ELSE 1]
    /\ pc \in {"constructed", "executing", "executed", "epoch", "runtime", "state"} =>
         writes = 0 /\ blob = <<>>
    /\ (pc \in {"state", "exited"} /\ viaMain) =>
         /\ \A k \in ReservedKeys : driverWrites[k] = 1
         /\ \A k \in ReservedKeys :
              Cardinality({i \in DOMAIN perfdata :
                             perfdata[i] = <<k, DriverValue(k)>>}) = 1
    /\ (Exited /\ viaMain) =>
         \A k \in ReservedKeys :
            IF as_json
            THEN Contains(PerfPart(blob),
                          <<"\"">> \o PyStr(k) \o <<"\"", ":", " ">> \o
                          JsonVal(DriverValue(k)))
            ELSE PyStr(k) \o <<"=">> \o PyStr(DriverValue(k))
                    \in Elems(Split(PerfPart(blob), "\n"))

\* a run of main() in which the probe had stored its own value under `state`
C5_Witness ==
    /\ Exited /\ viaMain /\ ~as_json
    /\ Len(perfdata) = 4
    /\ perfdata[1] = <<KeyState, StrV(StatusName("UNKNOWN"))>>
    /\ perfdata[2][1] = KeyK
    /\ stop > start

\* C6: finish() writes once, and what it writes is the first min(limit, N)
\* characters of the whole serialized text of length N: exactly limit characters
\* when N exceeds limit, everything otherwise; then the process exits.
C6_OutputIsCutOfWholeBlob ==
    /\ Exited =>
         /\ writes = 1
         /\ exitCode # NoExit
         /\ Len(blob) = Len(MessageText(message))
                        + (IF perfdata = <<>> THEN 0
                           ELSE 1 + Len(PerfText(perfdata, as_json)))
         /\ Len(stdout) = Min(limit, Len(blob))
         /\ \A i \in 1..Len(stdout) : stdout[i] = blob[i]
         /\ Len(blob) > limit => Len(stdout) = limit
         /\ Len(blob) <= limit => stdout = blob
    /\ ~Exited => writes = 0 /\ stdout = <<>>

\* a cut that falls inside the perfdata, after a message shorter than the limit
C6_Witness ==
    /\ Exited
    /\ Truthy(message)
    /\ perfdata # <<>>
    /\ Len(Payload(message)) + 1 < limit
    /\ limit < Len(blob)
    /\ Len(stdout) = limit

\* the key=value lines of the keys in the order they were first added, each with
\* the value added last
ExpectedLines ==
    Join(<<"\n">>,
         [i \in DOMAIN order |-> PyStr(order[i]) \o <<"=">> \o PyStr(latest[order[i]])])

\* C7: the serialized text is the message (or its placeholder) followed by one '|'
\* and the perfdata exactly when perfdata is not empty; without JSON the perfdata is
\* key=value lines in first-insertion order of the keys, a re-added key keeping its
\* place and taking the new value, and keys are unique.
C7_BlobLayoutAndInsertionOrder ==
    /\ Cardinality({perfdata[i][1] : i \in DOMAIN perfdata}) = Len(perfdata)
    /\ Exited =>
         /\ IsPrefix(MessageText(message), blob)
         /\ (perfdata = <<>>) <=> (blob = MessageText(message))
         /\ perfdata # <<>> =>
              /\ Len(blob) > Len(MessageText(message))
              /\ blob[Len(MessageText(message)) + 1] = "|"
         /\ (perfdata # <<>> /\ ~as_json) =>
              blob = MessageText(message) \o <<"|">> \o ExpectedLines

\* the probe added `state` and then `k`; the driver re-added `state`, which kept
\* the first place
C7_Witness ==
    /\ Exited /\ viaMain /\ ~as_json
    /\ Len(perfdata) = 4
    /\ perfdata[1][1] = KeyState
    /\ perfdata[2][1] = KeyK
    /\ latest[KeyState] = StrV(StatusName(execStatus))

(***************************************************************************)
(* Properties of the range-specification type.                             *)
(***************************************************************************)
\* the assertions of test_single_utils, test_range_both_utils and
\* test_inverse_utils: <<spec, value, value in Range(spec)>>
SenseTests ==
    {<<<<"1">>, Big(1), TRUE>>,
     <<<<"1">>, Big(2), FALSE>>,
     <<<<"1", "0">>, Big(1), TRUE>>,
     <<<<"1", "0">>, Big(2), TRUE>>,
     <<<<"1", "0">>, Big(10), TRUE>>,
     <<<<"1", "0">>, Big(0), TRUE>>,
     <<<<"1", "0">>, Big(0 - 1), FALSE>>,
     <<<<"1", "0">>, Big(11), FALSE>>,
     <<<<"@", "1", ":", "1", "0">>, Big(1), TRUE>>,
     <<<<"@", "1", ":", "1", "0">>, Big(5), TRUE>>,
     <<<<"@", "1", ":", "1", "0">>, Big(10), TRUE>>,
     <<<<"@", "1", ":", "1", "0">>, Big(0), FALSE>>,
     <<<<"@", "1", ":", "1", "0">>, Big(11), FALSE>>,
     <<<<"@", "1", "0", ":", "1">>, Big(0), TRUE>>,
     <<<<"@", "1", "0", ":", "1">>, Big(11), TRUE>>,
     <<<<"@", "1", "0", ":", "1">>, Big(1), FALSE>>,
     <<<<"@", "1", "0", ":", "1">>, Big(5), FALSE>>,
     <<<<"@", "1", "0", ":", "1">>, Big(10), FALSE>>}

\* the bounds those tests assert: <<spec, low, high>>
SenseTestBounds ==
    {<<<<"@", "1", ":", "1", "0">>, Big(1), Big(10)>>,
     <<<<"@", "1", "0", ":", "1">>, Big(1), Big(10)>>}

\* the assertions of test_range_high_utils, test_range_low_utils,
\* test_range_no_utils and test_range_negative_utils
DefaultTests ==
    {<<<<"@", ":", "1", "0">>, Big(1), TRUE>>,
     <<<<"@", ":", "1", "0">>, Big(5), TRUE>>,
     <<<<"@", ":", "1", "0">>, Big(10), TRUE>>,
     <<<<"@", ":", "1", "0">>, Big(0), FALSE>>,
     <<<<"@", ":", "1", "0">>, Big(11), FALSE>>,
     <<<<"@", "1", "0", ":">>, Big(10), TRUE>>,
     <<<<"@", "1", "0", ":">>, Big(11), TRUE>>,
     <<<<"@", "1", "0", ":">>, DomainMax, TRUE>>,
     <<<<"@", "1", "0", ":">>, Big(1), FALSE>>,
     <<<<"@", "1", "0", ":">>, Big(5), FALSE>>,
     <<<<"@", "1", "0", ":">>, Big(0), FALSE>>,
     <<<<"@", ":">>, Big(1), TRUE>>,
     <<<<"@", ":">>, Big(5), TRUE>>,
     <<<<"@", ":">>, Big(10), TRUE>>,
     <<<<"@", ":">>, Big(11), TRUE>>,
     <<<<"@", ":">>, Big(0), FALSE>>,
     <<<<"@", ":">>, Succ(DomainMax), FALSE>>,
     <<<<"@", "-", "1", "0", ":", "1", "2">>, Big(1), TRUE>>,
     <<<<"@", "-", "1", "0", ":", "1", "2">>, Big(5), TRUE>>,
     <<<<"@", "-", "1", "0", ":", "1", "2">>, Big(10), TRUE>>,
     <<<<"@", "-", "1", "0", ":", "1", "2">>, Big(0), TRUE>>,
     <<<<"@", "-", "1", "0", ":", "1", "2">>, Big(0 - 1), TRUE>>,
     <<<<"@", "-", "1", "0", ":", "1", "2">>, Big(0 - 10), TRUE>>,
     <<<<"@", "-", "1", "0", ":", "1", "2">>, Big(12), TRUE>>,
     <<<<"@", "-", "1", "0", ":", "1", "2">>, Big(13), FALSE>>,
     <<<<"@", "-", "1", "0", ":", "1", "2">>, Big(123), FALSE>>}

\* the bounds those tests assert
DefaultTestBounds ==
    {<<<<"@", ":", "1", "0">>, Big(1), Big(10)>>,
     <<<<"@", "1", "0", ":">>, Big(10), DomainMax>>,
     <<<<"@", ":">>, Big(1), DomainMax>>,
     <<<<"@", "-", "1", "0", ":", "1", "2">>, Big(0 - 10), Big(12)>>}

TestsHold(cases, bounds) ==
    /\ \A t \in cases : RangeParse(t[1]).ok /\ RangeContains(RangeParse(t[1]), t[2]) = t[3]
    /\ \A t \in bounds : RangeParse(t[1]).low = t[2] /\ RangeParse(t[1]).high = t[3]

Tested == probe # NoProbe

\* C8: contains(v) is low <= v <= high for a plain range and v < low or v > high
\* for an inverse one; a bare n >= 0 contains exactly 0..n, "@a:b" with a <= b
\* exactly a..b, and "@a:b" with a > b is normalized to low b, high a, inverse, so
\* that it contains exactly the values outside b..a ("@10:1": 0 and 11, not 1, 5, 10).
C8_ContainsFollowsBoundsAndSense ==
    /\ TestsHold(SenseTests, SenseTestBounds)
    /\ (range.ok /\ Tested) =>
         inRange = IF range.inverse
                   THEN Less(probe, range.low) \/ Less(range.high, probe)
                   ELSE LessEq(range.low, probe) /\ LessEq(probe, range.high)
    /\ (given.form = "bare" /\ given.a >= 0) =>
         /\ range.ok
         /\ Tested => (inRange <=> (LessEq(Big(0), probe) /\ LessEq(probe, Big(given.a))))
    /\ (given.form = "both" /\ given.a <= given.b) =>
         /\ range = [ok |-> TRUE, low |-> Big(given.a), high |-> Big(given.b),
                     inverse |-> FALSE]
         /\ Tested => (inRange <=> (LessEq(Big(given.a), probe) /\ LessEq(probe, Big(given.b))))
    /\ (given.form = "both" /\ given.a > given.b) =>
         /\ range = [ok |-> TRUE, low |-> Big(given.b), high |-> Big(given.a),
                     inverse |-> TRUE]
         /\ Tested => (inRange <=> (Less(probe, Big(given.b)) \/ Less(Big(given.a), probe)))

\* Range("@10:1") was asked for 10, the old upper end, and does not contain it
C8_Witness ==
    /\ rspec = <<"@", "1", "0", ":", "1">>
    /\ range.inverse
    /\ probe = Big(10)
    /\ ~inRange

\* C9: the defaults of omitted bounds: "<n>" low 0, high n; "@:<b>" low 1, high b;
\* "@<a>:" low a, high 2^32-1; "@:" low 1, high 2^32-1, which contains 2^32-1 and
\* not 2^32; explicit bounds may be negative; none of these forms is inverse.
C9_DefaultsOfOmittedBounds ==
    /\ TestsHold(DefaultTests, DefaultTestBounds)
    /\ given.form = "bare" =>
         range = [ok |-> TRUE, low |-> Big(0), high |-> Big(given.a), inverse |-> FALSE]
    /\ given.form = "high" =>
         range = [ok |-> TRUE, low |-> Big(1), high |-> Big(given.b), inverse |-> FALSE]
    /\ given.form = "low" =>
         range = [ok |-> TRUE, low |-> Big(given.a), high |-> <<65535, 65535>>,
                  inverse |-> FALSE]
    /\ given.form = "open" =>
         /\ range = [ok |-> TRUE, low |-> Big(1), high |-> <<65535, 65535>>,
                     inverse |-> FALSE]
         /\ probe = <<65535, 65535>> => inRange
         /\ probe = <<65536, 0>> => ~inRange
    /\ (given.form = "both" /\ given.a < 0 /\ given.a <= given.b) =>
         range = [ok |-> TRUE, low |-> Big(given.a), high |-> Big(given.b),
                  inverse |-> FALSE]

\* Range("@:") was asked for 2^32 and does not contain it
C9_Witness ==
    /\ rspec = <<"@", ":">>
    /\ range.low = Big(1)
    /\ probe = <<65536, 0>>
    /\ ~inRange

\* C10: every range-specification that parses gives low <= high.
C10_LowAtMostHigh == range.ok => LessEq(range.low, range.high)


(***************************************************************************)
(* Properties of argument parsing and of the probes.                       *)
(***************************************************************************)
\* texts with real-valued and with non-numeric bound tokens
RealTexts == {<<"1", ".", "0">>, <<"@", "1", ".", "5", ":", "2">>, <<"@", ":", "2", ".", "5">>, <<"@", "a", ":", "b">>, <<"@", "1", ".", "0", ":", "b">>, <<"@", "a", ":">>, <<"a">>}

\* a text one of whose bound tokens holds a letter
HasLetter(s) == Elems(s) \cap {"a", "b"} # {}

\* C11: a range-specification with a non-numeric bound token is refused by the
\* integer and by the real parser; given to -w or -c it ends the run while the
\* arguments are parsed: no Range is stored, execute() never runs, nothing is
\* sampled, the Result is untouched and finish() never maps a status to an exit.
C11_NonNumericBoundFailsAtParsing ==
    /\ \A s \in ArgTexts \cup RealTexts :
          HasLetter(s) => (~RangeParse(s).ok /\ ~FRangeAccepts(s))
    /\ (opts.probe = "procs" /\ HasLetter(opts.warnText)) => ~opts.warn.ok
    /\ (opts.probe = "procs" /\ HasLetter(opts.criticalText)) => ~opts.critical.ok
    /\ (opts.probe = "procs"
          /\ (HasLetter(opts.warnText) \/ HasLetter(opts.criticalText))) =>
         /\ pc = "usage"
         /\ sample = NoSample
         /\ call = NoCall
         /\ status = "OK"
         /\ message = NoneV
         /\ perfdata = <<>>
         /\ writes = 0
         /\ stdout = <<>>
         /\ exitCode = NoExit

\* -w @1:5 -c @a:b ended the run at argument parsing
C11_Witness ==
    /\ pc = "usage"
    /\ opts.warnText = <<"@", "1", ":", "5">>
    /\ opts.warn.ok
    /\ opts.criticalText = <<"@", "a", ":", "b">>
    /\ ~opts.critical.ok

\* the severity order OK < WARN < CRITICAL; UNKNOWN stands above it
Severity(s) ==
    CASE s = "OK" -> 0 [] s = "WARN" -> 1 [] s = "CRITICAL" -> 2 [] s = "UNKNOWN" -> 3

\* C12: a status assignment made while execute() runs never lowers the severity
\* in the order OK < WARN < CRITICAL, and never leaves UNKNOWN once it is set.
C12_StatusNeverDowngrades ==
    [][(pc = "executing" /\ call'.op = "status" /\ status' # status) =>
          (status # "UNKNOWN" /\ Severity(status') >= Severity(status))]_vars

\* the -u value names no user known to the password database
UserUnresolved == opts.probe = "procs" /\ pc # "usage" /\ ~ResolveUser(opts.user).ok

\* C13: an operational error in a probe, here a user name or uid that cannot
\* be resolved, does not leave execute() as an exception: the run goes on with
\* status UNKNOWN and a non-empty message, samples nothing, and exits with 3.
C13_OperationalErrorEndsUnknown ==
    UserUnresolved =>
        /\ pc # "aborted"
        /\ pc \in {"executed", "epoch", "runtime", "state", "exited"} =>
             /\ status = "UNKNOWN"
             /\ Truthy(message)
             /\ ~sample.sampled
        /\ Exited => exitCode = 3

\* C14: whatever the interleaving of concurrent invocations on the store, no
\* invocation ends on a missing key; one whose closest sample has gone reports
\* "Not enough data points yet.." and leaves through finish().
C14_NoCrashOnMissingKey ==
    \A i \in Invocations :
        /\ inv[i].pc # "crashed"
        /\ (inv[i].pc \in {"found", "returned", "exited"}
              /\ inv[i].closest # NoClosest /\ inv[i].closest \notin db) =>
             inv[i].message = StrV(<<"N", "o", "t", " ", "e", "n", "o", "u", "g", "h", " ", "d", "a", "t", "a", " ", "p", "o", "i", "n", "t", "s", " ", "y", "e", "t", ".", ".">>)

\* the counts each threshold text lets pass, written out by hand
Passes(text, n) ==
    CASE text = <<"1">> -> 0 <= n /\ n <= 1
      [] text = <<"5">> -> 0 <= n /\ n <= 5
      [] text = <<"@", "1", ":", "5">> -> 1 <= n /\ n <= 5
      [] text = <<"@", "5", ":", "1">> -> n < 1 \/ n > 5
      [] text = <<"@", ":", "3">> -> 1 <= n /\ n <= 3
      [] text = <<"@", "2", ":">> -> 2 <= n
      [] OTHER -> FALSE

\* execute() of the process-count probe has returned from a count
Counted ==
    /\ opts.probe = "procs"
    /\ pc \in {"executed", "epoch", "runtime", "state", "exited"}
    /\ sample.sampled

\* C15: the process-count probe ends CRITICAL when the count is not in the
\* critical range (also when it is in neither range, the critical range being
\* tested last and named in the message), otherwise WARN when it is not in the
\* warning range, otherwise OK with exit code 0.
C15_HighestBreachedSeverity ==
    Counted =>
        LET w == ~Passes(opts.warnText, sample.count)
            c == ~Passes(opts.criticalText, sample.count)
        IN  /\ c => status = "CRITICAL"
            /\ (~c /\ w) => status = "WARN"
            /\ (~c /\ ~w) => status = "OK"
            /\ c => Contains(Payload(message), RangeWords(opts.critical))
            /\ (~c /\ w) => Contains(Payload(message), RangeWords(opts.warn))
            /\ (~c /\ ~w) => ~Contains(Payload(message), <<"r", "a", "n", "g", "e">>)
            /\ Exited => exitCode = (IF c THEN 2 ELSE IF w THEN 1 ELSE 0)

\* count 3 with -w @1:5 and a critical range that holds 3: OK, exit code 0
C15_Witness ==
    /\ Counted
    /\ Exited
    /\ sample.count = 3
    /\ opts.warnText = <<"@", "1", ":", "5">>
    /\ opts.criticalText = <<"5">>
    /\ status = "OK"
    /\ exitCode = 0

\* execute() of the disk probe has returned from a sample taken in percent units
DiskMeasured ==
    /\ opts.probe = "disk"
    /\ opts.unit = "percent"
    /\ pc \in {"executed", "epoch", "runtime", "state", "exited"}
    /\ ~sample.failed

\* C16: with thresholds in percent, the disk probe ends CRITICAL (exit 2) exactly
\* when free/total in percent is below critical, WARN (exit 1) exactly when it is
\* at or above critical and below warn, and OK (exit 0) otherwise.
C16_DiskPercentThresholds ==
    DiskMeasured =>
        LET c == 100 * sample.free < opts.critical * sample.total
            w == 100 * sample.free < opts.warn * sample.total
        IN  /\ status = (IF c THEN "CRITICAL" ELSE IF w THEN "WARN" ELSE "OK")
            /\ Exited => exitCode = (IF c THEN 2 ELSE IF w THEN 1 ELSE 0)

\* the load probe has taken its sample
LoadSampled == opts.probe = "load" /\ sample.probe = "load" /\ ~sample.failed

\* C17: a run of the load probe whose sample succeeded reaches finish(); when the
\* 1-minute average is above its warning value and not above its critical value
\* the run ends WARN with exit code 1 and a message naming the 1-minute interval.
C17_LoadWarnReachesOutput ==
    LoadSampled =>
        /\ pc # "aborted"
        /\ (pc \in {"executed", "epoch", "runtime", "state", "exited"}
              /\ sample.load[1] > 100 * opts.warn[1]
              /\ sample.load[1] <= 100 * opts.critical[1]) =>
             /\ status = "WARN"
             /\ Contains(Payload(message), <<"1", " ", "m", "i", "n">>)
             /\ Exited => exitCode = 1

\* invocation i has opened the store and run its loop over the keys to the end
LoopDone(i) ==
    \/ inv[i].pc = "looping" /\ inv[i].keys = {}
    \/ inv[i].pc = "found"
    \/ inv[i].pc \in {"returned", "exited"} /\ inv[i].status # "UNKNOWN"

\* C18: with invocations run one after the other, once an invocation at time now
\* with span s has gone through the keys, the store holds the key now and no key
\* below now - 3*s; the closest sample is never now itself and never a pruned key.
C18_StorePrunedAndCurrentKept ==
    /\ LoopDone(1) =>
         /\ inv[1].now \in db
         /\ \A k \in db : k >= inv[1].now - 3 * inv[1].span
         /\ inv[1].closest # NoClosest => inv[1].closest \in db
    /\ inv[1].closest # NoClosest =>
         /\ inv[1].closest # inv[1].now
         /\ inv[1].closest >= inv[1].now - 3 * inv[1].span

\* an invocation at time 5 with span 1 went through the keys and found the
\* sample of time 4; the store holds these two keys and none from before time 2
C18_Witness ==
    /\ inv[1].pc = "found"
    /\ inv[1].now = 5
    /\ inv[1].span = 1
    /\ inv[1].closest = 4
    /\ db = {4, 5}

\* C19: in a run of main() the `state` entry that is serialized names the status
\* whose value is the exit code, also when finish() forces CRITICAL for an empty
\* message.
C19_StateEntryNamesExitStatus ==
    (Exited /\ viaMain) =>
        \E s \in Statuses :
            /\ StatusValue(s) = exitCode
            /\ <<KeyState, StrV(StatusName(s))>> \in Elems(perfdata)
=============================================================================
